---------------------------- MODULE Spec2Model ----------------------------
(***************************************************************************)
(* Model of src/app.py: the Streamlit "Python Code Analyzer".              *)
(*                                                                         *)
(* Python strings that the program inspects character by character (the   *)
(* diagram code, the model response, the diagram-type label) are          *)
(* sequences of one-character strings.  Strings the program only passes   *)
(* around (API key, uploaded text, chat prompt, chat reply) are TLA+      *)
(* strings.  An optional value is a sequence of length 0 or 1.            *)
(***************************************************************************)
EXTENDS Naturals, Sequences, FiniteSets

VARIABLES
    \* ---- the Streamlit session and the last script run (app.py:165-335)
    api_key,            \* sidebar text input
    uploaded_file,      \* file_uploader widget: <<>> or <<text>>
    code_content,       \* decoded text of the upload, "" when none
    messages,           \* st.session_state.messages
    diagram_selection,  \* selectbox value
    trigger,            \* the widget event that caused the last script run
    shown,              \* UI elements emitted by the last script run
    calls,              \* prompts passed to generate_content by the last script run
    output_text,        \* <<response.text>> of the last diagram run, else <<>>
    raw_mermaid,        \* <<raw_mermaid>> of the last diagram run, else <<>>
    html_template,      \* <<clean_mermaid>> handed to components.html, else <<>>
    \* ---- sanitize_mermaid_code applied to a drawn input
    code, cleaned, recleaned,
    \* ---- the extraction regex applied to a drawn response
    response, extracted,
    \* ---- DiagramFactory.create_generator applied to a drawn label
    selection, generator

appVars  == <<api_key, uploaded_file, code_content, messages, diagram_selection,
              trigger, shown, calls, output_text, raw_mermaid, html_template>>
sanVars  == <<code, cleaned, recleaned>>
extVars  == <<response, extracted>>
selVars  == <<selection, generator>>
pureVars == <<sanVars, extVars, selVars>>
vars     == <<appVars, pureVars>>

---------------------------------------------------------------------------
(* Bounds *)

\* longest character string drawn as input of sanitize_mermaid_code
MaxLen == 4

---------------------------------------------------------------------------
(* Characters and generic string helpers *)

NL == "\n"

\* str.strip() and regex \s: the whitespace characters
WhiteSpace == {" ", NL, "\t", "\r", "\f"}

\* regex \w: the ASCII word characters
Letters == {"a", "b", "c", "d", "e", "f", "g", "h", "i", "j", "k", "l", "m",
            "n", "o", "p", "q", "r", "s", "t", "u", "v", "w", "x", "y", "z",
            "A", "B", "C", "D", "E", "F", "G", "H", "I", "J", "K", "L", "M",
            "N", "O", "P", "Q", "R", "S", "T", "U", "V", "W", "X", "Y", "Z"}
Digits == {"0", "1", "2", "3", "4", "5", "6", "7", "8", "9"}
WordChars == Letters \cup Digits \cup {"_"}

\* all sequences over S of length 0..n
SeqsUpTo(S, n) == UNION {[1..k -> S] : k \in 0..n}

\* Python `sub in s` for strings
Contains(s, sub) ==
    \E i \in 0..(Len(s) - Len(sub)) :
        \A k \in 1..Len(sub) : s[i + k] = sub[k]

\* Python s.replace(c, '') for a one-character c
RECURSIVE RemoveChar(_, _)
RemoveChar(s, c) ==
    IF s = <<>> THEN <<>>
    ELSE IF Head(s) = c THEN RemoveChar(Tail(s), c)
    ELSE <<Head(s)>> \o RemoveChar(Tail(s), c)

\* first index >= p of s whose character is not in S (Len(s)+1 when none)
RECURSIVE SkipWhile(_, _, _)
SkipWhile(s, p, S) ==
    IF p > Len(s) \/ s[p] \notin S THEN p ELSE SkipWhile(s, p + 1, S)

\* first index >= p of s holding c, 0 when none
RECURSIVE IndexFrom(_, _, _)
IndexFrom(s, p, c) ==
    IF p > Len(s) THEN 0
    ELSE IF s[p] = c THEN p ELSE IndexFrom(s, p + 1, c)

---------------------------------------------------------------------------
(* sanitize_mermaid_code, app.py:139-159 *)

\* code.split('\n')
RECURSIVE SplitLines(_)
SplitLines(s) ==
    LET i == IndexFrom(s, 1, NL) IN
    IF i = 0 THEN <<s>>
    ELSE <<SubSeq(s, 1, i - 1)>> \o SplitLines(SubSeq(s, i + 1, Len(s)))

\* '\n'.join(cleaned_lines)
RECURSIVE JoinLines(_)
JoinLines(ls) ==
    IF Len(ls) = 1 THEN ls[1]
    ELSE ls[1] \o <<NL>> \o JoinLines(Tail(ls))

\* One match attempt of  :\s*\w+(?:<[^>]*>)?  at index p.  Returns the index
\* just after the match, 0 when the regex does not match at p.  \s* and \w+
\* are greedy and backing off never helps (whitespace is not a word
\* character, the group is optional); the group matches through the first
\* '>' after '<' when there is one and is skipped otherwise.
HintMatchEnd(line, p) ==
    IF line[p] # ":" THEN 0
    ELSE LET q == SkipWhile(line, p + 1, WhiteSpace) IN
         IF q > Len(line) \/ line[q] \notin WordChars THEN 0
         ELSE LET r == SkipWhile(line, q, WordChars)
                  g == IF r <= Len(line) /\ line[r] = "<"
                       THEN IndexFrom(line, r + 1, ">") ELSE 0
              IN  IF g # 0 THEN g + 1 ELSE r

\* re.sub(r':\s*\w+(?:<[^>]*>)?', '', line): leftmost, non-overlapping
RECURSIVE SubHintsFrom(_, _)
SubHintsFrom(line, p) ==
    IF p > Len(line) THEN <<>>
    ELSE LET e == HintMatchEnd(line, p) IN
         IF e = 0 THEN <<line[p]>> \o SubHintsFrom(line, p + 1)
         ELSE SubHintsFrom(line, e)

\* step 1 (app.py:148)
StripHints(line) == SubHintsFrom(line, 1)

\* variant of step 2 that deletes < only
StripAngles_OpenOnly(line) == RemoveChar(line, "<")

\* step 2 (app.py:151)
StripAngles(line) == RemoveChar(RemoveChar(line, "<"), ">")

\* variant of the indicator test that forgets --
IsRelationshipLine_NoDash(line) ==
    Contains(line, <<".", ".">>) \/ Contains(line, <<"|">>)

\* negation of the condition of app.py:155
IsRelationshipLine(line) ==
    Contains(line, <<"-", "-">>) \/ Contains(line, <<".", ".">>)
        \/ Contains(line, <<"|">>)

\* variant of step 3 that deletes [ only
RemoveSquare_OpenOnly(line) == RemoveChar(line, "[")

\* app.py:156
RemoveSquare(line) == RemoveChar(RemoveChar(line, "["), "]")

\* body of the for loop, app.py:147-158
SanitizeLine(line) ==
    LET l1 == StripHints(line)
        l2 == StripAngles(l1)
    IN  IF ~IsRelationshipLine(l2) THEN RemoveSquare(l2) ELSE l2

RECURSIVE MapLines(_)
MapLines(ls) ==
    IF ls = <<>> THEN <<>> ELSE <<SanitizeLine(Head(ls))>> \o MapLines(Tail(ls))

\* variant that applies the three rewrites to the whole text at once
sanitize_whole_text(c) == SanitizeLine(c)

sanitize_mermaid_code(c) == JoinLines(MapLines(SplitLines(c)))

---------------------------------------------------------------------------
(* Inputs of the sanitizer specification *)

Alphabet == {":", " ", "a", "<", ">", "[", "]", "-", ".", "|", NL}

\* "A --> B[Label]"
SampleArrow == <<"A", " ", "-", "-", ">", " ", "B", "[", "L", "a", "b", "e", "l", "]">>
\* "items: List[str]"
SampleHint == <<"i", "t", "e", "m", "s", ":", " ", "L", "i", "s", "t", "[", "s", "t", "r", "]">>
\* "A --> B : Map<K[]>"
SampleGenericLabel == <<"A", " ", "-", "-", ">", " ", "B", " ", ":", " ",
                        "M", "a", "p", "<", "K", "[", "]", ">">>

\* "+items:[int]"
SampleBracketHint == <<"+", "i", "t", "e", "m", "s", ":", "[", "i", "n", "t", "]">>

SanitizerInputs ==
    SeqsUpTo(Alphabet, MaxLen)
        \cup {SampleArrow, SampleHint, SampleGenericLabel, SampleBracketHint}

SanInit ==
    /\ code \in SanitizerInputs
    /\ cleaned = <<>>
    /\ recleaned = <<>>

\* clean = sanitize_mermaid_code(code)
Sanitize ==
    /\ cleaned = <<>>
    /\ cleaned' = <<sanitize_mermaid_code(code)>>
    /\ UNCHANGED <<code, recleaned, appVars, extVars, selVars>>

\* sanitize_mermaid_code(clean)
SanitizeAgain ==
    /\ cleaned # <<>>
    /\ recleaned = <<>>
    /\ recleaned' = <<sanitize_mermaid_code(cleaned[1])>>
    /\ UNCHANGED <<code, cleaned, appVars, extVars, selVars>>

---------------------------------------------------------------------------
(* Diagram code extraction, app.py:302-305 *)

\* the backtick character (a TLA+ string literal cannot hold it)
Backtick == "BACKTICK"

Fence == <<Backtick, Backtick, Backtick>>

TagMermaid      == <<"m", "e", "r", "m", "a", "i", "d">>
TagFlowchart    == <<"f", "l", "o", "w", "c", "h", "a", "r", "t">>
TagClassDiagram == <<"c", "l", "a", "s", "s", "D", "i", "a", "g", "r", "a", "m">>
TagErDiagram    == <<"e", "r", "D", "i", "a", "g", "r", "a", "m">>

\* the alternation (?:mermaid|flowchart|classDiagram|erDiagram), in order
Tags == <<TagMermaid, TagFlowchart, TagClassDiagram, TagErDiagram>>

\* pat occurs in s at index p
StartsWith(s, p, pat) ==
    /\ p + Len(pat) - 1 <= Len(s)
    /\ \A k \in 1..Len(pat) : s[p + k - 1] = pat[k]

\* first index >= p of s where pat occurs, 0 when none
RECURSIVE FindFrom(_, _, _)
FindFrom(s, p, pat) ==
    IF p + Len(pat) - 1 > Len(s) THEN 0
    ELSE IF StartsWith(s, p, pat) THEN p ELSE FindFrom(s, p + 1, pat)

\* last index >= p of s where pat occurs, 0 when none
RECURSIVE FindLastFrom(_, _, _)
FindLastFrom(s, p, pat) ==
    LET i == FindFrom(s, p, pat) IN
    IF i = 0 THEN 0
    ELSE LET j == FindLastFrom(s, i + 1, pat) IN IF j = 0 THEN i ELSE j

\* variant with a greedy group (.*): the body runs to the last fence
ClosingFence_Greedy(s, p) == FindLastFrom(s, p, Fence)

\* (.*?)``` with re.DOTALL from index p: the lazy group stops at the first
\* closing fence; 0 when there is none
ClosingFence(s, p) == FindFrom(s, p, Fence)

\* the alternatives Tags[k..] tried in order after a fence at p; a match is
\* <<[body |-> group 1, next |-> index after the match]>>, no match is <<>>
RECURSIVE TryTags(_, _, _)
TryTags(s, p, k) ==
    IF k > Len(Tags) THEN <<>>
    ELSE IF StartsWith(s, p + 3, Tags[k])
         THEN LET b == p + 3 + Len(Tags[k])
                  j == ClosingFence(s, b)
              IN  IF j # 0
                  THEN <<[body |-> SubSeq(s, b, j - 1), next |-> j + 3]>>
                  ELSE TryTags(s, p, k + 1)
         ELSE TryTags(s, p, k + 1)

\* one match attempt of the pattern at index p
MatchAt(s, p) == IF StartsWith(s, p, Fence) THEN TryTags(s, p, 1) ELSE <<>>

\* re.findall(pattern, s, re.DOTALL) scanning from index p
RECURSIVE FindAllFrom(_, _)
FindAllFrom(s, p) ==
    IF p > Len(s) THEN <<>>
    ELSE LET m == MatchAt(s, p) IN
         IF m = <<>> THEN FindAllFrom(s, p + 1)
         ELSE <<m[1].body>> \o FindAllFrom(s, m[1].next)

findall(s) == FindAllFrom(s, 1)

RECURSIVE lstrip(_)
lstrip(s) ==
    IF s # <<>> /\ Head(s) \in WhiteSpace THEN lstrip(Tail(s)) ELSE s

RECURSIVE rstrip(_)
rstrip(s) ==
    IF s # <<>> /\ s[Len(s)] \in WhiteSpace
    THEN rstrip(SubSeq(s, 1, Len(s) - 1)) ELSE s

\* variant that does not trim
strip_none(s) == s

\* str.strip()
strip(s) == rstrip(lstrip(s))

\* app.py:304-305: matches[0].strip() if matches else ""
ExtractMermaid(text) ==
    LET matches == findall(text) IN
    IF matches # <<>> THEN strip(matches[1]) ELSE <<>>

\* concatenation of a sequence of strings
RECURSIVE Flatten(_)
Flatten(ts) == IF ts = <<>> THEN <<>> ELSE Head(ts) \o Flatten(Tail(ts))

\* most pieces a drawn response of the extractor specification is made of
MaxRespToks == 4

ExtractTokens ==
    {Fence, <<Backtick>>, TagMermaid, TagFlowchart, TagClassDiagram, TagErDiagram,
     <<" ">>, <<"x">>}

\* "```mermaid\nA --> B\n```"
SampleBlock == Fence \o TagMermaid \o <<"\n", "A", " ", "-", "-", ">", " ", "B", "\n">> \o Fence
\* a class-diagram block followed by an entity-relationship block
SampleTwoBlocks ==
    <<"x", NL>> \o Fence \o TagClassDiagram \o <<NL, "A", NL>> \o Fence
        \o <<NL>> \o Fence \o TagErDiagram \o <<NL, "B", NL>> \o Fence

ExtractInputs ==
    {Flatten(ts) : ts \in SeqsUpTo(ExtractTokens, MaxRespToks)}
        \cup {SampleBlock, SampleTwoBlocks}

ExtInit ==
    /\ response \in ExtractInputs
    /\ extracted = <<>>

\* raw_mermaid = matches[0].strip() if matches else ""
Extract ==
    /\ extracted = <<>>
    /\ extracted' = <<ExtractMermaid(response)>>
    /\ UNCHANGED <<response, appVars, sanVars, selVars>>

---------------------------------------------------------------------------
(* DiagramFactory.create_generator, app.py:122-133 *)

LitClass   == <<"C", "l", "a", "s", "s">>
LitERD     == <<"E", "R", "D">>
LitUseCase == <<"U", "s", "e", " ", "C", "a", "s", "e">>

\* variant that tests "ERD" before "Class"
create_generator_ERDFirst(sel) ==
    IF Contains(sel, LitERD) THEN "ERDDiagramStrategy"
    ELSE IF Contains(sel, LitClass) THEN "ClassDiagramStrategy"
    ELSE IF Contains(sel, LitUseCase) THEN "UseCaseDiagramStrategy"
    ELSE "ClassDiagramStrategy"

create_generator(sel) ==
    IF Contains(sel, LitClass) THEN "ClassDiagramStrategy"
    ELSE IF Contains(sel, LitERD) THEN "ERDDiagramStrategy"
    ELSE IF Contains(sel, LitUseCase) THEN "UseCaseDiagramStrategy"
    ELSE "ClassDiagramStrategy"

\* the options of the selectbox, app.py:269-272
OptClass   == <<"C", "l", "a", "s", "s", " ", "D", "i", "a", "g", "r", "a", "m", " ", "(", "C", "h", "e", "c", "k", " ", "f", "o", "r", " ", "P", "a", "t", "t", "e", "r", "n", "s", ")">>
OptERD     == <<"E", "R", "D", " ", "D", "i", "a", "g", "r", "a", "m">>
OptUseCase == <<"U", "s", "e", " ", "C", "a", "s", "e", " ", "D", "i", "a", "g", "r", "a", "m">>
DiagramOptions == {OptClass, OptERD, OptUseCase}

\* most pieces a drawn label of the selector specification is made of
MaxLabelToks == 3

LabelTokens ==
    {LitClass, LitERD, LitUseCase, <<"c", "l", "a", "s", "s">>, <<"U", "s", "e">>, <<" ", "C", "a", "s", "e">>, <<" ", "D", "i", "a", "g", "r", "a", "m">>}

LabelInputs ==
    {Flatten(ts) : ts \in SeqsUpTo(LabelTokens, MaxLabelToks)} \cup DiagramOptions

SelInit ==
    /\ selection \in LabelInputs
    /\ generator = <<>>

\* generator_strategy = DiagramFactory.create_generator(selection)
Select ==
    /\ generator = <<>>
    /\ generator' = <<create_generator(selection)>>
    /\ UNCHANGED <<selection, appVars, sanVars, extVars>>

---------------------------------------------------------------------------
(* The Streamlit script, app.py:165-335.  Every widget event reruns the    *)
(* whole script; one action is one script run.                             *)

\* most entries of the chat history (caps the growth of messages)
MaxHist == 2

\* most pieces a drawn model response of a diagram run is made of
MaxPieces == 2

ApiKeys == {"", "key"}
\* decoded text of an uploaded file; the file may be empty
Files   == {"", "class A: pass"}
Prompts == {"q"}
Replies == {"r"}

\* pieces of a model response
PieceEmptyBlock   == Fence \o TagFlowchart \o <<NL>> \o Fence
PieceGenericBlock == Fence \o TagClassDiagram \o <<NL, "A", "<", "B", ">", NL>> \o Fence
PieceArrowBlock   == Fence \o TagMermaid \o <<NL, "A", " ", "-", "-", ">", " ", "B", NL>> \o Fence
PieceOpenFence    == Fence \o TagErDiagram \o <<NL>>
PieceOtherBlock   == Fence \o <<"t", "x", "t", NL, "a", NL>> \o Fence

Pieces == {PieceEmptyBlock, PieceGenericBlock, PieceArrowBlock,
           PieceOpenFence, PieceOtherBlock}

\* response.text of a diagram run
DiagramResponses == {Flatten(ts) : ts \in SeqsUpTo(Pieces, MaxPieces)}

\* the three get_prompt templates (app.py:72-120), the chat prompt (215)
\* and the documentation prompt (238), each around code_content
Prompt(template, cc, q) == [template |-> template, code |-> cc, q |-> q]

CodeOf(uf) == IF uf = <<>> THEN "" ELSE uf[1]

\* app.py:183-189
HeadShown(uf) ==
    {"widget:file_uploader"}
        \cup (IF uf # <<>> THEN {"upload.code_expander"} ELSE {})

\* app.py:203-208 with no prompt submitted
Tab1Idle(msgs) ==
    (IF msgs # <<>> THEN {"tab1.history"} ELSE {}) \cup {"widget:chat_input"}

\* app.py:229 with the button not clicked
Tab2Idle == {"widget:docs_button"}

\* app.py:262-277 with Generate not clicked
Tab3Idle(cc) ==
    IF cc = "" THEN {"tab3.info:upload_first"}
    ELSE {"widget:selectbox", "widget:generate_button"}

NoDiagram ==
    /\ output_text' = <<>>
    /\ raw_mermaid' = <<>>
    /\ html_template' = <<>>

\* a script run in which neither chat, docs nor Generate fired
IdleRun(k, uf) ==
    /\ api_key' = k
    /\ uploaded_file' = uf
    /\ code_content' = (IF k = "" THEN "" ELSE CodeOf(uf))
    /\ shown' = (IF k = "" THEN {"sidebar.warning:api_key"}       \* 174-176
                 ELSE HeadShown(uf) \cup Tab1Idle(messages) \cup Tab2Idle
                        \cup Tab3Idle(CodeOf(uf)))
    /\ calls' = <<>>
    /\ NoDiagram
    /\ UNCHANGED messages

AppInit ==
    /\ api_key = ""
    /\ uploaded_file = <<>>
    /\ code_content = ""
    /\ messages = <<>>
    /\ diagram_selection = OptClass
    /\ trigger = "start"
    /\ shown = {"sidebar.warning:api_key"}
    /\ calls = <<>>
    /\ output_text = <<>>
    /\ raw_mermaid = <<>>
    /\ html_template = <<>>

\* the sidebar text input changes (app.py:170-179)
EnterApiKey(k) ==
    /\ k # api_key
    /\ trigger' = "api_key"
    /\ IdleRun(k, uploaded_file)
    /\ UNCHANGED <<diagram_selection, pureVars>>

\* a file is chosen in the uploader (app.py:183-189)
UploadFile(f) ==
    /\ "widget:file_uploader" \in shown
    /\ trigger' = "upload"
    /\ IdleRun(api_key, <<f>>)
    /\ UNCHANGED <<diagram_selection, pureVars>>

\* the uploaded file is removed from the uploader
RemoveFile ==
    /\ "widget:file_uploader" \in shown
    /\ uploaded_file # <<>>
    /\ trigger' = "remove"
    /\ IdleRun(api_key, <<>>)
    /\ UNCHANGED <<diagram_selection, pureVars>>

\* another option of the selectbox is chosen (app.py:269-272)
SelectDiagram(sel) ==
    /\ "widget:selectbox" \in shown
    /\ sel # diagram_selection
    /\ trigger' = "select"
    /\ diagram_selection' = sel
    /\ IdleRun(api_key, uploaded_file)
    /\ UNCHANGED pureVars

\* a chat prompt is submitted (app.py:208-219); reply is <<>> when
\* generate_content raises, <<text>> otherwise
ChatSubmit(q, reply) ==
    /\ "widget:chat_input" \in shown
    /\ Len(messages) + 2 <= MaxHist
    /\ trigger' = "chat"
    /\ LET cc   == CodeOf(uploaded_file)
           head == HeadShown(uploaded_file) \cup Tab1Idle(messages)
           rest == Tab2Idle \cup Tab3Idle(cc)
           user == [role |-> "user", content |-> q]
       IN  /\ code_content' = cc
           /\ IF cc = ""
              THEN /\ messages' = messages
                   /\ calls' = <<>>
                   /\ shown' = head \cup rest
              ELSE /\ calls' = <<Prompt("chat", cc, q)>>
                   /\ IF reply = <<>>
                      THEN /\ messages' = Append(messages, user)
                           /\ shown' = head \cup {"tab1.user_bubble", "exception"}
                      ELSE /\ messages' = messages \o
                                <<user, [role |-> "assistant", content |-> reply[1]]>>
                           /\ shown' = head \cup rest \cup
                                {"tab1.user_bubble", "tab1.assistant_bubble"}
    /\ NoDiagram
    /\ UNCHANGED <<api_key, uploaded_file, diagram_selection, pureVars>>

\* the Generate Documentation button is clicked (app.py:229-254)
GenerateDocs(reply) ==
    /\ "widget:docs_button" \in shown
    /\ trigger' = "docs"
    /\ LET cc   == CodeOf(uploaded_file)
           head == HeadShown(uploaded_file) \cup Tab1Idle(messages) \cup Tab2Idle
       IN  /\ code_content' = cc
           /\ IF cc = ""
              THEN /\ calls' = <<>>
                   /\ shown' = head \cup {"tab2.error:upload_first"} \cup Tab3Idle(cc)
              ELSE /\ calls' = <<Prompt("doc", cc, "")>>
                   /\ IF reply = <<>>
                      THEN shown' = head \cup {"exception"}
                      ELSE shown' = head \cup {"tab2.preview", "tab2.download_button"}
                                        \cup Tab3Idle(cc)
    /\ NoDiagram
    /\ UNCHANGED <<api_key, uploaded_file, diagram_selection, messages, pureVars>>

\* the Generate button of the Diagrams tab is clicked (app.py:280-335);
\* resp is <<>> when generate_content raises, <<response.text>> otherwise
GenerateDiagram(resp) ==
    /\ "widget:generate_button" \in shown
    /\ trigger' = "generate"
    /\ LET cc   == CodeOf(uploaded_file)
           head == HeadShown(uploaded_file) \cup Tab1Idle(messages) \cup Tab2Idle
                       \cup Tab3Idle(cc) \cup {"tab3.source_preview"}
           raw  == ExtractMermaid(resp[1])
       IN  /\ code_content' = cc
           /\ calls' = <<Prompt(create_generator(diagram_selection), cc, "")>>
           /\ output_text' = resp
           /\ IF resp = <<>>
              THEN /\ shown' = head \cup {"exception"}
                   /\ raw_mermaid' = <<>>
                   /\ html_template' = <<>>
              ELSE /\ raw_mermaid' = <<raw>>
                   /\ IF raw # <<>>
                      THEN /\ html_template' = <<sanitize_mermaid_code(raw)>>
                           /\ shown' = head \cup {"tab3.debug_view", "tab3.success",
                                                  "tab3.diagram"}
                      ELSE /\ html_template' = <<>>
                           /\ shown' = head \cup {"tab3.error:extract"}
    /\ UNCHANGED <<api_key, uploaded_file, diagram_selection, messages, pureVars>>

---------------------------------------------------------------------------
(* Specifications *)

SanIdle == code = <<>> /\ cleaned = <<>> /\ recleaned = <<>>
ExtIdle == response = <<>> /\ extracted = <<>>
SelIdle == selection = <<>> /\ generator = <<>>

\* a generate_content call: it raises (<<>>) or returns one of the texts
Outcomes(texts) == {<<>>} \cup {<<t>> : t \in texts}

\* the application
Init == AppInit /\ SanIdle /\ ExtIdle /\ SelIdle

Next ==
    \/ \E k \in ApiKeys : EnterApiKey(k)
    \/ \E f \in Files : UploadFile(f)
    \/ RemoveFile
    \/ \E sel \in DiagramOptions : SelectDiagram(sel)
    \/ \E q \in Prompts, reply \in Outcomes(Replies) : ChatSubmit(q, reply)
    \/ \E reply \in Outcomes(Replies) : GenerateDocs(reply)
    \/ \E resp \in Outcomes(DiagramResponses) : GenerateDiagram(resp)

Spec == Init /\ [][Next]_vars

\* sanitize_mermaid_code on drawn inputs
InitSanitize == AppInit /\ SanInit /\ ExtIdle /\ SelIdle

NextSanitize == Sanitize \/ SanitizeAgain

SpecSanitize == InitSanitize /\ [][NextSanitize]_vars

\* the extraction regex on drawn responses
InitExtract == AppInit /\ SanIdle /\ ExtInit /\ SelIdle

NextExtract == Extract

SpecExtract == InitExtract /\ [][NextExtract]_vars

\* create_generator on drawn labels
InitSelect == AppInit /\ SanIdle /\ ExtIdle /\ SelInit

NextSelect == Select

SpecSelect == InitSelect /\ [][NextSelect]_vars

---------------------------------------------------------------------------
(* Vocabulary of the properties *)

\* pat lies in s from index i on
At(s, i, pat) ==
    /\ i + Len(pat) - 1 <= Len(s)
    /\ SubSeq(s, i, i + Len(pat) - 1) = pat

\* sub occurs in s
Occurs(sub, s) == \E i \in 1..Len(s) : At(s, i, sub)

IsSquare(c) == c \in {"[", "]"}
IsAngle(c)  == c \in {"<", ">"}

\* the square brackets of s, in order
Brackets(s) == SelectSeq(s, IsSquare)

\* number of line breaks of s
Breaks(s) == Cardinality({i \in 1..Len(s) : s[i] = NL})

\* the line holds a type annotation: a colon, optional whitespace, a word
\* character
HasHint(line) ==
    \E p \in 1..Len(line), q \in 1..Len(line) :
        /\ p < q
        /\ line[p] = ":"
        /\ line[q] \in WordChars
        /\ \A k \in (p + 1)..(q - 1) : line[k] \in WhiteSpace

\* one of the relationship indicators -- , .. , | occurs in the line
HasIndicator(line) ==
    Occurs(<<"-", "-">>, line) \/ Occurs(<<".", ".">>, line) \/ Occurs(<<"|">>, line)

InLines  == SplitLines(code)
OutLines == SplitLines(cleaned[1])

---------------------------------------------------------------------------
(* C1 *)

\* C1 (as claimed): sanitize_mermaid_code is idempotent: sanitizing the
\* sanitized text gives the sanitized text back.
C1_Idempotent ==
    recleaned # <<>> => recleaned[1] = cleaned[1]

---------------------------------------------------------------------------
(* C2 *)

\* C2 (as claimed): every input line containing -- keeps all its square
\* brackets, in order, in the corresponding output line.
C2_DashLinesKeepBrackets ==
    cleaned # <<>> =>
        \A i \in DOMAIN InLines :
            Occurs(<<"-", "-">>, InLines[i]) =>
                /\ i \in DOMAIN OutLines
                /\ Brackets(OutLines[i]) = Brackets(InLines[i])

\* C2 (amended): every input line that contains -- and holds no type
\* annotation (no colon followed by optional whitespace and a word
\* character) keeps all its square brackets, in order, in the corresponding
\* output line.
C2_DashLinesWithoutHintKeepBrackets ==
    cleaned # <<>> =>
        \A i \in DOMAIN InLines :
            (Occurs(<<"-", "-">>, InLines[i]) /\ ~HasHint(InLines[i])) =>
                /\ i \in DOMAIN OutLines
                /\ Brackets(OutLines[i]) = Brackets(InLines[i])

\* "A --> B[Label]" has been sanitized and still holds [Label]
C2_Witness ==
    /\ code = SampleArrow
    /\ cleaned # <<>>
    /\ Occurs(<<"[", "L", "a", "b", "e", "l", "]">>, cleaned[1])

---------------------------------------------------------------------------
(* C3 *)

\* C3 (as claimed): every input line containing none of -- , .. , | has an
\* output line without [ and ]; for "items: List[str]" no ": List" remains.
C3_PlainLinesLoseBrackets ==
    cleaned # <<>> =>
        /\ \A i \in DOMAIN InLines :
               ~HasIndicator(InLines[i]) =>
                   /\ i \in DOMAIN OutLines
                   /\ Brackets(OutLines[i]) = <<>>
        /\ code = SampleHint =>
               ~Occurs(<<":", " ", "L", "i", "s", "t">>, cleaned[1])

\* C3 (amended): every input line that contains none of -- , .. , | once its
\* type annotations and angle brackets are removed (steps 1 and 2) has an
\* output line without [ and ]; for "items: List[str]" no ": List" remains.
C3_PlainAfterRewriteLoseBrackets ==
    cleaned # <<>> =>
        /\ \A i \in DOMAIN InLines :
               ~HasIndicator(StripAngles(StripHints(InLines[i]))) =>
                   /\ i \in DOMAIN OutLines
                   /\ Brackets(OutLines[i]) = <<>>
        /\ code = SampleHint =>
               ~Occurs(<<":", " ", "L", "i", "s", "t">>, cleaned[1])

\* "items: List[str]" has been sanitized to "itemsstr"
C3_Witness ==
    /\ code = SampleHint
    /\ cleaned = <<<<"i", "t", "e", "m", "s", "s", "t", "r">>>>

---------------------------------------------------------------------------
(* C7 *)

\* C7: the sanitized text has as many lines as the input, and its i-th line
\* is what the sanitizer makes of the input's i-th line alone.
C7_LinesPreserved ==
    cleaned # <<>> =>
        /\ Breaks(cleaned[1]) = Breaks(code)
        /\ Len(OutLines) = Len(InLines)
        /\ \A i \in DOMAIN InLines :
               /\ i \in DOMAIN OutLines
               /\ OutLines[i] = sanitize_mermaid_code(InLines[i])

\* a three-line input that the sanitizer has changed
C7_Witness ==
    /\ cleaned # <<>>
    /\ Breaks(code) = 2
    /\ cleaned[1] # code

---------------------------------------------------------------------------
(* C9 *)

\* an opening fence followed by one of the tags starts at index i of s
OpensAt(s, i) ==
    /\ At(s, i, Fence)
    /\ \E k \in DOMAIN Tags : At(s, i + 3, Tags[k])

\* index just after the tag of the opening fence at i
BodyStart(s, i) ==
    LET k == CHOOSE k \in DOMAIN Tags : At(s, i + 3, Tags[k])
    IN  i + 3 + Len(Tags[k])

FirstOpen(s) ==
    CHOOSE i \in 1..Len(s) : OpensAt(s, i) /\ \A j \in 1..(i - 1) : ~OpensAt(s, j)

\* triple-backtick fences at or after the body start of the first opening
Closings(s) ==
    {j \in BodyStart(s, FirstOpen(s))..Len(s) : At(s, j, Fence)}

FirstClosing(s) == CHOOSE j \in Closings(s) : \A h \in Closings(s) : j <= h

\* s holds a fenced block opened with one of the tags
HasTaggedBlock(s) ==
    /\ \E i \in 1..Len(s) : OpensAt(s, i)
    /\ Closings(s) # {}

\* t is s without its leading and trailing whitespace
IsTrimOf(t, s) ==
    \E lo \in 1..(Len(s) + 1), hi \in 0..Len(s) :
        /\ t = SubSeq(s, lo, hi)
        /\ \A k \in 1..(lo - 1) : s[k] \in WhiteSpace
        /\ \A k \in (hi + 1)..Len(s) : s[k] \in WhiteSpace
        /\ t # <<>> => (t[1] \notin WhiteSpace /\ t[Len(t)] \notin WhiteSpace)

\* the text between the first tagged opening fence and the first fence after it
FirstBody(s) == SubSeq(s, BodyStart(s, FirstOpen(s)), FirstClosing(s) - 1)

\* C9: the extractor returns the trimmed text between the first opening fence
\* followed by a tag and the first fence after it, whatever follows; the
\* response "```mermaid\nA --> B\n```" gives "A --> B".
C9_FirstBlockTrimmed ==
    extracted # <<>> =>
        /\ HasTaggedBlock(response) => IsTrimOf(extracted[1], FirstBody(response))
        /\ response = SampleBlock =>
               extracted[1] = <<"A", " ", "-", "-", ">", " ", "B">>

\* of two tagged blocks the first has been extracted
C9_Witness ==
    /\ response = SampleTwoBlocks
    /\ extracted = <<<<"A">>>>

---------------------------------------------------------------------------
(* C6 *)

Strategies == {"ClassDiagramStrategy", "ERDDiagramStrategy", "UseCaseDiagramStrategy"}

\* C6: create_generator returns one strategy for every label: the class
\* one when the label holds "Class", else the ERD one when it holds "ERD",
\* else the use-case one when it holds "Use Case", else the class one.
C6_SelectorPriority ==
    generator # <<>> =>
        LET g  == generator[1]
            c  == Occurs(LitClass, selection)
            e  == Occurs(LitERD, selection)
            u  == Occurs(LitUseCase, selection)
        IN  /\ g \in Strategies
            /\ c => g = "ClassDiagramStrategy"
            /\ (~c /\ e) => g = "ERDDiagramStrategy"
            /\ (~c /\ ~e /\ u) => g = "UseCaseDiagramStrategy"
            /\ (~c /\ ~e /\ ~u) => g = "ClassDiagramStrategy"

\* a label holding "ERD" before "Class" has got the class strategy
C6_Witness ==
    /\ selection = LitERD \o LitClass
    /\ generator = <<"ClassDiagramStrategy">>

---------------------------------------------------------------------------
(* C4 *)

ExtractErrorShown == "tab3.error:extract" \in shown
DiagramRendered   == "tab3.diagram" \in shown /\ html_template # <<>>

\* a diagram run that received a response
DiagramRunDone == trigger = "generate" /\ output_text # <<>>

\* C4 (as claimed): the diagram action shows the extraction error and renders
\* nothing exactly when the response holds no tagged fenced block; otherwise
\* it renders the sanitized diagram; it never ends in an exception.
C4_ErrorIffNoBlock ==
    DiagramRunDone =>
        /\ "exception" \notin shown
        /\ ExtractErrorShown <=> ~HasTaggedBlock(output_text[1])
        /\ ExtractErrorShown => ~DiagramRendered /\ html_template = <<>>
        /\ ~ExtractErrorShown => DiagramRendered

\* the first tagged block of s holds only whitespace
FirstBlockBlank(s) == \A k \in DOMAIN FirstBody(s) : FirstBody(s)[k] \in WhiteSpace

\* C4 (amended): the diagram action shows the extraction error and renders
\* nothing exactly when the response holds no tagged fenced block or the body
\* of its first tagged block is empty or all whitespace; otherwise it renders
\* the sanitized trimmed body of that block; it never ends in an exception.
C4_ErrorIffNoBlockOrBlank ==
    DiagramRunDone =>
        LET s == output_text[1] IN
        /\ "exception" \notin shown
        /\ ExtractErrorShown <=> (~HasTaggedBlock(s) \/ FirstBlockBlank(s))
        /\ ExtractErrorShown => ~DiagramRendered /\ html_template = <<>>
        /\ ~ExtractErrorShown =>
               /\ DiagramRendered
               /\ IsTrimOf(raw_mermaid[1], FirstBody(s))
               /\ html_template[1] = sanitize_mermaid_code(raw_mermaid[1])

\* a response whose first tagged block is blank has given the error although
\* a second tagged block follows
C4_Witness ==
    /\ DiagramRunDone
    /\ output_text[1] = PieceEmptyBlock \o PieceArrowBlock
    /\ ExtractErrorShown
    /\ html_template = <<>>

---------------------------------------------------------------------------
(* C8 *)

\* C8: every payload handed to the renderer is the sanitizer's output for the
\* extracted code and holds neither < nor >, whatever diagram type is chosen.
C8_PayloadSanitized ==
    html_template # <<>> =>
        /\ raw_mermaid # <<>>
        /\ html_template[1] = sanitize_mermaid_code(raw_mermaid[1])
        /\ \A k \in DOMAIN html_template[1] : ~IsAngle(html_template[1][k])

\* an ERD run has rendered a payload whose extracted code held < and >
C8_Witness ==
    /\ "tab3.diagram" \in shown
    /\ diagram_selection = OptERD
    /\ html_template # <<>>
    /\ Occurs(<<"<">>, raw_mermaid[1])
    /\ Occurs(<<">">>, raw_mermaid[1])

---------------------------------------------------------------------------
(* C5 *)

\* the notices the script can show (st.warning, st.error, st.info) and the
\* container each is written to
NoticePlace ==
    [n \in {"sidebar.warning:api_key", "tab2.error:upload_first",
            "tab3.info:upload_first", "tab3.error:extract"} |->
        CASE n = "sidebar.warning:api_key" -> "sidebar"
          [] n = "tab2.error:upload_first" -> "tab2"
          [] OTHER                         -> "tab3"]

\* the tab an action belongs to
ActionTab(t) ==
    CASE t = "chat" -> "tab1" [] t = "docs" -> "tab2" [] OTHER -> "tab3"

\* the notices shown in the tab of action t
NoticesOf(t, sh) == {n \in DOMAIN NoticePlace \cap sh : NoticePlace[n] = ActionTab(t)}

\* C5 (as claimed): a chat, documentation or diagram action triggered while
\* no file is uploaded shows its message, calls the completion service not at
\* all and leaves the chat history unchanged.
C5_MissingInput ==
    [][ (uploaded_file' = <<>> /\ trigger' \in {"chat", "docs", "generate"}) =>
            /\ NoticesOf(trigger', shown') # {}
            /\ calls' = <<>>
            /\ messages' = messages ]_vars

---------------------------------------------------------------------------
(* C10 *)

\* the history is a sequence of (user, assistant) pairs
CompletePairs(msgs) ==
    /\ Len(msgs) % 2 = 0
    /\ \A i \in DOMAIN msgs :
           msgs[i].role = (IF i % 2 = 1 THEN "user" ELSE "assistant")

\* C10 (as claimed): no script run calls the completion service twice, and
\* the chat history always consists of complete (user, assistant) pairs, so a
\* chat turn whose call fails leaves it as it was.
C10_HistoryCompletePairs ==
    /\ Len(calls) <= 1
    /\ CompletePairs(messages)

============================================================================
